---- MODULE Spec2Model ----
(***************************************************************************)
(* Model of server/transcript.py: extract_transcript (language-priority    *)
(* selection of a caption track, fetch and assembly of its segments, and   *)
(* the mapping of provider failures to a result) and                       *)
(* list_available_languages.  The caption provider (youtube_transcript_api)*)
(* is the environment: its network calls succeed or raise, and the data it *)
(* hands back is drawn from small sets.                                    *)
(***************************************************************************)
EXTENDS Integers, Sequences, FiniteSets, TLC

\* ------------------------------------------------------------------ bounds
MaxTracks == 3      \* tracks a video has at most
MaxPrio == 2        \* length of a priority list at most
MaxSegs == 2        \* segments a fetch returns at most

\* ------------------------------------------------------------ value domains
\* Python's None, for the fields that hold a string or None.
None == "None"

VideoIds == {"dQw4w9WgXcQ"}
Langs == {"ko", "en", "ja"}

\* Track.language, the display name the provider gives a language code.
LanguageName(code) ==
  IF code = "ko" THEN "Korean" ELSE IF code = "en" THEN "English" ELSE "Japanese"

\* The provider's track descriptors: language_code, language, is_generated.
AllTracks ==
  { [language_code |-> c, language |-> LanguageName(c), is_generated |-> g] :
      c \in Langs, g \in BOOLEAN }

\* A video's tracks in the provider's enumeration order; the provider keys
\* its tracks by (kind, language code), so no two agree on both.
TrackSeqs ==
  { s \in UNION { [1..n -> AllTracks] : n \in 0..MaxTracks } :
      \A i, j \in DOMAIN s : i # j => s[i] # s[j] }

\* lang_priority arguments.
PrioLists == UNION { [1..n -> Langs] : n \in 0..MaxPrio }

\* Segments a fetch can return: start and duration in thousandths of a
\* second, text a string or (a malformed snippet) None.
SegPool ==
  { [start |-> 0,    duration |-> 1238, text |-> "hi"],
    [start |-> 1238, duration |-> 125,  text |-> ""],
    [start |-> 1375, duration |-> 375,  text |-> None] }

SegSeqs == UNION { [1..n -> SegPool] : n \in 0..MaxSegs }

\* Exceptions: the class and str(e).
RecognizedTypes == {"TranscriptsDisabled", "VideoUnavailable", "NoTranscriptAvailable"}
ExceptionTypes == RecognizedTypes \cup {"NoTranscriptFound", "Exception"}
\* What a provider call can raise: each class with a message, and one whose
\* str(e) is empty.
Excs ==
  { [type |-> t, desc |-> "boom"] : t \in ExceptionTypes }
    \cup { [type |-> "Exception", desc |-> ""] }
NoExc == [type |-> "none", desc |-> ""]

\* --------------------------------------------------------------- messages
\* The four error messages, in English for the Korean literals of the source
\* (lines 105, 107, 87 and 109, 111).
MsgDisabled == "Subtitles are disabled for this video."
MsgUnavailable == "The video cannot be found or is private."
\* used both by the empty-selection return and the NoTranscriptAvailable handler
MsgNoTranscript == "No subtitles are available for this video."
MsgUnexpected == "Error while extracting subtitles: "

DefaultPriority == <<"ko", "en">>

\* ---------------------------------------------------------- pure functions
\* round(x, 2) on thousandths: to the nearest hundredth, a tie to the even
\* hundredth (the ties of SegPool, .125 and .375, are exact in binary).
Round2(ms) ==
  LET q == ms \div 10
      r == ms % 10
  IN  IF r < 5 THEN q * 10
      ELSE IF r > 5 THEN (q + 1) * 10
      ELSE IF q % 2 = 0 THEN q * 10 ELSE (q + 1) * 10

\* transcript_list.find_manually_created_transcript([lang]): the index of the
\* manual track of that language, 0 for NoTranscriptFound.
find_manually_created_transcript(tl, lang) ==
  IF \E i \in DOMAIN tl : tl[i].language_code = lang /\ ~tl[i].is_generated
  THEN CHOOSE i \in DOMAIN tl : tl[i].language_code = lang /\ ~tl[i].is_generated
  ELSE 0

\* transcript_list.find_generated_transcript([lang]), likewise.
find_generated_transcript(tl, lang) ==
  IF \E i \in DOMAIN tl : tl[i].language_code = lang /\ tl[i].is_generated
  THEN CHOOSE i \in DOMAIN tl : tl[i].language_code = lang /\ tl[i].is_generated
  ELSE 0

\* A faulty variant of SearchManual: the search takes a track of either kind.
RECURSIVE SearchManual_AnyKind(_, _)
SearchManual_AnyKind(tl, lp) ==
  IF lp = <<>> THEN 0
  ELSE IF \E i \in DOMAIN tl : tl[i].language_code = Head(lp)
       THEN CHOOSE i \in DOMAIN tl : tl[i].language_code = Head(lp)
       ELSE SearchManual_AnyKind(tl, Tail(lp))

\* The loop of step 2: the first language of lp that has a manual track.
RECURSIVE SearchManual(_, _)
SearchManual(tl, lp) ==
  IF lp = <<>> THEN 0
  ELSE LET t == find_manually_created_transcript(tl, Head(lp))
       IN  IF t # 0 THEN t ELSE SearchManual(tl, Tail(lp))

\* A faulty variant of SearchGenerated: the last matching language wins, not the first.
RECURSIVE SearchGenerated_Last(_, _)
SearchGenerated_Last(tl, lp) ==
  IF lp = <<>> THEN 0
  ELSE LET later == SearchGenerated_Last(tl, Tail(lp))
       IN  IF later # 0 THEN later ELSE find_generated_transcript(tl, Head(lp))

\* The loop of step 3: the first language of lp that has a generated track.
RECURSIVE SearchGenerated(_, _)
SearchGenerated(tl, lp) ==
  IF lp = <<>> THEN 0
  ELSE LET t == find_generated_transcript(tl, Head(lp))
       IN  IF t # 0 THEN t ELSE SearchGenerated(tl, Tail(lp))

\* A faulty variant of FirstTrack: the loop lacks its break and keeps the last track.
FirstTrack_Last(tl) == Len(tl)

\* The loop of step 4 when the enumeration does not raise: the first track.
FirstTrack(tl) == IF tl = <<>> THEN 0 ELSE 1

\* The list comprehension of step 5.
RoundSegments(segs) ==
  [ i \in DOMAIN segs |->
      [start |-> Round2(segs[i].start),
       duration |-> Round2(segs[i].duration),
       text |-> segs[i].text] ]

\* A faulty variant of Join: the separator also follows the last text.
RECURSIVE Join_Trailing(_)
Join_Trailing(texts) ==
  IF texts = <<>> THEN ""
  ELSE texts[1] \o "\n" \o Join_Trailing(Tail(texts))

\* "\n".join(texts) for texts that are all strings.
RECURSIVE Join(_)
Join(texts) ==
  IF texts = <<>> THEN ""
  ELSE IF Len(texts) = 1 THEN texts[1]
  ELSE texts[1] \o "\n" \o Join(Tail(texts))

Texts(segs) == [ i \in DOMAIN segs |-> segs[i].text ]

\* The first item str.join rejects (0-based), -1 when all are strings.
FirstNonStr(texts) ==
  IF \E i \in DOMAIN texts : texts[i] = None
  THEN (CHOOSE i \in DOMAIN texts :
          texts[i] = None /\ \A j \in 1..(i - 1) : texts[j] # None) - 1
  ELSE -1

Digit == <<"0", "1", "2", "3", "4", "5", "6", "7", "8", "9">>

\* The TypeError str.join raises on a None item.
JoinError(k) ==
  [type |-> "Exception",
   desc |-> "sequence item " \o Digit[k + 1] \o ": expected str instance, NoneType found"]

\* The result dict as constructed before the try.
InitResult(v) ==
  [success |-> FALSE, video_id |-> v, language |-> None, is_generated |-> FALSE,
   segments |-> <<>>, full_text |-> "", error |-> None]

\* A faulty variant of Handle: VideoUnavailable gets the no-transcript message.
Handle_Merged(res, e) ==
  IF e.type = "TranscriptsDisabled" THEN [res EXCEPT !.error = MsgDisabled]
  ELSE IF e.type = "VideoUnavailable" THEN [res EXCEPT !.error = MsgNoTranscript]
  ELSE IF e.type = "NoTranscriptAvailable" THEN [res EXCEPT !.error = MsgNoTranscript]
  ELSE [res EXCEPT !.error = MsgUnexpected \o e.desc]

\* A faulty variant of Handle: the catch-all drops str(e) from its message.
Handle_NoDesc(res, e) ==
  IF e.type = "TranscriptsDisabled" THEN [res EXCEPT !.error = MsgDisabled]
  ELSE IF e.type = "VideoUnavailable" THEN [res EXCEPT !.error = MsgUnavailable]
  ELSE IF e.type = "NoTranscriptAvailable" THEN [res EXCEPT !.error = MsgNoTranscript]
  ELSE [res EXCEPT !.error = MsgUnexpected]

\* The except clauses of extract_transcript, in order.
Handle(res, e) ==
  IF e.type = "TranscriptsDisabled" THEN [res EXCEPT !.error = MsgDisabled]
  ELSE IF e.type = "VideoUnavailable" THEN [res EXCEPT !.error = MsgUnavailable]
  ELSE IF e.type = "NoTranscriptAvailable" THEN [res EXCEPT !.error = MsgNoTranscript]
  ELSE [res EXCEPT !.error = MsgUnexpected \o e.desc]

\* A faulty variant of NoTranscriptResult: the early return forgets the error.
NoTranscriptResult_Unset(res) == res

\* The return when no track was selected.
NoTranscriptResult(res) == [res EXCEPT !.error = MsgNoTranscript]

\* Whether the except clauses catch e: the last one is `except Exception`.
Caught(e) == e.type \in RecognizedTypes \/ e.type \in ExceptionTypes

\* The two returns of list_available_languages.
LanguagesSuccess(v, langs) == [success |-> TRUE, video_id |-> v, languages |-> langs]

\* A faulty variant of LanguagesFailure: the tracks appended so far are returned.
LanguagesFailure_Partial(v, langs, e) ==
  [success |-> FALSE, video_id |-> v, languages |-> langs, error |-> e.desc]

LanguagesFailure(v, langs, e) ==
  [success |-> FALSE, video_id |-> v, languages |-> <<>>, error |-> e.desc]

\* The dict the enumeration of list_available_languages appends for a track.
LanguageEntry(t) ==
  [code |-> t.language_code, name |-> t.language, is_generated |-> t.is_generated]

\* ------------------------------------------------------------------ state
VARIABLES
  pc,              \* position of the running call
  tracks,          \* the provider's tracks of the requested video
  lang_priority,   \* extract_transcript's priority list
  transcript_list, \* the listing returned by list_transcripts
  transcript,      \* index of the selected track in transcript_list, 0 = None
  segments,        \* what transcript.fetch() returned
  result,          \* extract_transcript's result dict
  languages,       \* list_available_languages' accumulator
  lang_result,     \* list_available_languages' return value
  calls,           \* provider network calls of the running call, in order
  raised,          \* the exception that ended the try block, NoExc if none
  raisedAt,        \* the step that raised it
  swallowed,       \* the exception step 4's inner handler passed over
  fault            \* an exception that escaped to the caller, NoExc if none

vars == <<pc, tracks, lang_priority, transcript_list, transcript, segments,
          result, languages, lang_result, calls, raised, raisedAt, swallowed, fault>>

NoLangResult == [success |-> FALSE, video_id |-> "", languages |-> <<>>, error |-> ""]

Init ==
  /\ pc = "idle"
  /\ tracks = <<>>
  /\ lang_priority = <<>>
  /\ transcript_list = <<>>
  /\ transcript = 0
  /\ segments = <<>>
  /\ result = InitResult("")
  /\ languages = <<>>
  /\ lang_result = NoLangResult
  /\ calls = <<>>
  /\ raised = NoExc
  /\ raisedAt = "none"
  /\ swallowed = NoExc
  /\ fault = NoExc

\* An exception e leaves the try block at step `at`: the matching except
\* clause fills result.error and the function returns result.
Raise(e, at) ==
  /\ raised' = e
  /\ raisedAt' = at
  /\ IF Caught(e)
     THEN /\ result' = Handle(result, e)
          /\ fault' = NoExc
     ELSE /\ result' = result
          /\ fault' = e
  /\ pc' = "done"

\* ------------------------------------------------------ extract_transcript
\* Entry with an explicit priority list: the result dict is built.
extract_transcript(v, lp, trks) ==
  /\ pc = "idle"
  /\ pc' = "list"
  /\ tracks' = trks
  /\ lang_priority' = lp
  /\ result' = InitResult(v)
  /\ transcript_list' = <<>>
  /\ transcript' = 0
  /\ segments' = <<>>
  /\ calls' = <<>>
  /\ raised' = NoExc
  /\ raisedAt' = "none"
  /\ swallowed' = NoExc
  /\ fault' = NoExc
  /\ UNCHANGED <<languages, lang_result>>

\* Entry with lang_priority=None: the default list is used.
extract_transcript_default(v, trks) == extract_transcript(v, DefaultPriority, trks)

\* A faulty variant of ListTranscripts: a failed list query is tried once more.
ListTranscripts_Retry ==
  /\ pc = "list"
  /\ calls' = Append(calls, "list")
  /\ \/ /\ transcript_list' = tracks
        /\ pc' = "manual"
        /\ UNCHANGED <<result, raised, raisedAt, fault>>
     \/ /\ IF Len(calls) = 0
           THEN UNCHANGED <<pc, result, raised, raisedAt, fault>>
           ELSE \E e \in Excs : Raise(e, "list")
        /\ UNCHANGED transcript_list
  /\ UNCHANGED <<tracks, lang_priority, transcript, segments, languages,
                 lang_result, swallowed>>

\* Step 1: YouTubeTranscriptApi.list_transcripts(video_id).
ListTranscripts ==
  /\ pc = "list"
  /\ calls' = Append(calls, "list")
  /\ \/ /\ transcript_list' = tracks
        /\ pc' = "manual"
        /\ UNCHANGED <<result, raised, raisedAt, fault>>
     \/ /\ \E e \in Excs : Raise(e, "list")
        /\ UNCHANGED transcript_list
  /\ UNCHANGED <<tracks, lang_priority, transcript, segments, languages,
                 lang_result, swallowed>>

\* Step 2: manual tracks, in priority order.
SelectManual ==
  /\ pc = "manual"
  /\ transcript' = SearchManual(transcript_list, lang_priority)
  /\ result' = IF transcript' # 0 THEN [result EXCEPT !.is_generated = FALSE] ELSE result
  /\ pc' = "generated"
  /\ UNCHANGED <<tracks, lang_priority, transcript_list, segments, languages,
                 lang_result, calls, raised, raisedAt, swallowed, fault>>

\* Step 3: generated tracks, in priority order, when step 2 found none.
SelectGenerated ==
  /\ pc = "generated"
  /\ IF transcript = 0
     THEN /\ transcript' = SearchGenerated(transcript_list, lang_priority)
          /\ result' = IF transcript' # 0
                       THEN [result EXCEPT !.is_generated = TRUE] ELSE result
     ELSE UNCHANGED <<transcript, result>>
  /\ pc' = "fallback"
  /\ UNCHANGED <<tracks, lang_priority, transcript_list, segments, languages,
                 lang_result, calls, raised, raisedAt, swallowed, fault>>

\* Step 4: any track, when steps 2 and 3 found none; an exception of the
\* enumeration is passed over.  Then the return when nothing was selected.
SelectFallback ==
  /\ pc = "fallback"
  /\ IF transcript = 0
     THEN \/ /\ transcript' = FirstTrack(transcript_list)
             /\ UNCHANGED swallowed
          \/ /\ \E e \in Excs : swallowed' = e
             /\ transcript' = 0
     ELSE UNCHANGED <<transcript, swallowed>>
  /\ IF transcript' # 0
     THEN /\ result' = IF transcript = 0
                       THEN [result EXCEPT
                               !.is_generated = transcript_list[transcript'].is_generated]
                       ELSE result
          /\ pc' = "fetch"
     ELSE /\ result' = NoTranscriptResult(result)
          /\ pc' = "done"
  /\ UNCHANGED <<tracks, lang_priority, transcript_list, segments, languages,
                 lang_result, calls, raised, raisedAt, fault>>

\* Step 5, the fetch: transcript.fetch(), then result["language"].
Fetch ==
  /\ pc = "fetch"
  /\ calls' = Append(calls, "fetch")
  /\ \/ /\ \E segs \in SegSeqs : segments' = segs
        /\ result' = [result EXCEPT
                        !.language = transcript_list[transcript].language_code]
        /\ pc' = "assemble"
        /\ UNCHANGED <<raised, raisedAt, fault>>
     \/ /\ \E e \in Excs : Raise(e, "fetch")
        /\ UNCHANGED segments
  /\ UNCHANGED <<tracks, lang_priority, transcript_list, transcript, languages,
                 lang_result, swallowed>>

\* Step 5, the assembly: result["segments"], then result["full_text"] (the
\* join raises on a text that is no string), then result["success"].
Assemble ==
  /\ pc = "assemble"
  /\ LET withSegs == [result EXCEPT !.segments = RoundSegments(segments)]
         k == FirstNonStr(Texts(segments))
     IN  IF k = -1
         THEN /\ result' = [withSegs EXCEPT !.full_text = Join(Texts(segments)),
                                            !.success = TRUE]
              /\ pc' = "done"
              /\ UNCHANGED <<raised, raisedAt, fault>>
         ELSE /\ raised' = JoinError(k)
              /\ raisedAt' = "assemble"
              /\ IF Caught(JoinError(k))
                 THEN result' = Handle(withSegs, JoinError(k)) /\ fault' = NoExc
                 ELSE result' = withSegs /\ fault' = JoinError(k)
              /\ pc' = "done"
  /\ UNCHANGED <<tracks, lang_priority, transcript_list, transcript, segments,
                 languages, lang_result, calls, swallowed>>

\* The caller receives the result; nothing of the call outlives it (the
\* functions keep no state), so the next request starts from scratch.
Return ==
  /\ pc = "done"
  /\ pc' = "idle"
  /\ tracks' = <<>>
  /\ lang_priority' = <<>>
  /\ transcript_list' = <<>>
  /\ transcript' = 0
  /\ segments' = <<>>
  /\ result' = InitResult("")
  /\ calls' = <<>>
  /\ raised' = NoExc
  /\ raisedAt' = "none"
  /\ swallowed' = NoExc
  /\ fault' = NoExc
  /\ UNCHANGED <<languages, lang_result>>

\* ------------------------------------------------ list_available_languages
list_available_languages(v, trks) ==
  /\ pc = "idle"
  /\ pc' = "l_list"
  /\ tracks' = trks
  /\ lang_priority' = <<>>
  /\ result' = InitResult(v)
  /\ transcript_list' = <<>>
  /\ transcript' = 0
  /\ segments' = <<>>
  /\ languages' = <<>>
  /\ lang_result' = NoLangResult
  /\ calls' = <<>>
  /\ raised' = NoExc
  /\ raisedAt' = "none"
  /\ swallowed' = NoExc
  /\ fault' = NoExc

\* An exception e in list_available_languages' try block at step `at`:
\* `except Exception as e` returns the failure dict.
LanguagesRaise(e, at) ==
  /\ raised' = e
  /\ raisedAt' = at
  /\ IF Caught(e)
     THEN /\ lang_result' = LanguagesFailure(result.video_id, languages, e)
          /\ fault' = NoExc
     ELSE /\ lang_result' = lang_result
          /\ fault' = e
  /\ pc' = "l_done"

\* YouTubeTranscriptApi.list_transcripts(video_id), then languages = [].
LanguagesList ==
  /\ pc = "l_list"
  /\ calls' = Append(calls, "list")
  /\ \/ /\ transcript_list' = tracks
        /\ pc' = "l_enum"
        /\ UNCHANGED <<lang_result, raised, raisedAt, fault>>
     \/ /\ \E e \in Excs : LanguagesRaise(e, "list")
        /\ UNCHANGED transcript_list
  /\ UNCHANGED <<tracks, lang_priority, transcript, segments, result, languages,
                 swallowed>>

\* One turn of `for t in transcript_list`: the next track is appended, the
\* enumeration raises, or it is exhausted and the success dict is returned.
LanguagesEnum ==
  /\ pc = "l_enum"
  /\ \/ /\ Len(languages) < Len(transcript_list)
        /\ languages' = Append(languages, LanguageEntry(transcript_list[Len(languages) + 1]))
        /\ UNCHANGED <<pc, lang_result, raised, raisedAt, fault>>
     \/ /\ \E e \in Excs : LanguagesRaise(e, "enumerate")
        /\ UNCHANGED languages
     \/ /\ Len(languages) = Len(transcript_list)
        /\ lang_result' = LanguagesSuccess(result.video_id, languages)
        /\ pc' = "l_done"
        /\ UNCHANGED <<languages, raised, raisedAt, fault>>
  /\ UNCHANGED <<tracks, lang_priority, transcript_list, transcript, segments,
                 result, calls, swallowed>>

LanguagesReturn ==
  /\ pc = "l_done"
  /\ pc' = "idle"
  /\ tracks' = <<>>
  /\ transcript_list' = <<>>
  /\ result' = InitResult("")
  /\ languages' = <<>>
  /\ lang_result' = NoLangResult
  /\ calls' = <<>>
  /\ raised' = NoExc
  /\ raisedAt' = "none"
  /\ fault' = NoExc
  /\ UNCHANGED <<lang_priority, transcript, segments, swallowed>>

\* ---------------------------------------------------------- specification
\* A request for a transcript arrives (GET /api/transcript passes the parsed
\* list; a direct call may omit it).
ExtractCall ==
  /\ pc = "idle"
  /\ \E v \in VideoIds, lp \in PrioLists, trks \in TrackSeqs :
       extract_transcript(v, lp, trks)

ExtractCallDefault ==
  /\ pc = "idle"
  /\ \E v \in VideoIds, trks \in TrackSeqs : extract_transcript_default(v, trks)

\* A request for the language list arrives.
LanguagesCall ==
  /\ pc = "idle"
  /\ \E v \in VideoIds, trks \in TrackSeqs : list_available_languages(v, trks)

Next ==
  \/ ExtractCall
  \/ ExtractCallDefault
  \/ ListTranscripts
  \/ SelectManual
  \/ SelectGenerated
  \/ SelectFallback
  \/ Fetch
  \/ Assemble
  \/ Return
  \/ LanguagesCall
  \/ LanguagesList
  \/ LanguagesEnum
  \/ LanguagesReturn

Spec == Init /\ [][Next]_vars

\* ------------------------------------------------------------- properties
ExtractPcs == {"list", "manual", "generated", "fallback", "fetch", "assemble", "done"}

\* The running extract_transcript call got its listing.
Listed == pc \in ExtractPcs \ {"list"} /\ raisedAt # "list"

\* Steps 2 to 4 of the running call are over.
Selected == pc \in {"fetch", "assemble", "done"} /\ raisedAt # "list"

\* The video has a manual / generated / any track in the i-th priority language.
ManualAt(i) ==
  \E t \in DOMAIN tracks :
    tracks[t].language_code = lang_priority[i] /\ ~tracks[t].is_generated

GeneratedAt(i) ==
  \E t \in DOMAIN tracks :
    tracks[t].language_code = lang_priority[i] /\ tracks[t].is_generated

AnyAt(i) == ManualAt(i) \/ GeneratedAt(i)

EarliestManual ==
  CHOOSE i \in DOMAIN lang_priority : ManualAt(i) /\ \A j \in 1..(i - 1) : ~ManualAt(j)

EarliestGenerated ==
  CHOOSE i \in DOMAIN lang_priority :
    GeneratedAt(i) /\ \A j \in 1..(i - 1) : ~GeneratedAt(j)

\* C1: when some manual track has a language of the priority list, the
\* track selected is the manual track of the earliest such language and
\* is_generated is false, whatever generated tracks exist.
C1_ManualPreferred ==
  (Selected /\ \E i \in DOMAIN lang_priority : ManualAt(i)) =>
    /\ transcript # 0
    /\ transcript_list[transcript].language_code = lang_priority[EarliestManual]
    /\ ~transcript_list[transcript].is_generated
    /\ result.is_generated = FALSE

\* A manual track of the second priority language was taken although the
\* first priority language has a generated track.
C1_Witness ==
  /\ pc = "done"
  /\ result.success
  /\ Len(lang_priority) = 2
  /\ GeneratedAt(1) /\ ~ManualAt(1) /\ ManualAt(2)
  /\ transcript_list[transcript].language_code = lang_priority[2]
  /\ ~transcript_list[transcript].is_generated

\* C2 as stated: with no manual track but some generated track in a
\* priority language, the earliest such generated track is selected and the
\* result has is_generated=true and that track's language code.
C2_Original ==
  (pc = "done" /\ Listed
     /\ (\A i \in DOMAIN lang_priority : ~ManualAt(i))
     /\ (\E i \in DOMAIN lang_priority : GeneratedAt(i))) =>
    /\ transcript # 0
    /\ transcript_list[transcript].language_code = lang_priority[EarliestGenerated]
    /\ transcript_list[transcript].is_generated
    /\ result.is_generated = TRUE
    /\ result.language = lang_priority[EarliestGenerated]

\* C2 amended: the same selection and is_generated=true; language is that
\* track's code once the fetch call has succeeded and stays None when the
\* fetch raises; success=true when neither fetch nor assembly raises.
C2_GeneratedFallback ==
  (pc = "done" /\ Listed
     /\ (\A i \in DOMAIN lang_priority : ~ManualAt(i))
     /\ (\E i \in DOMAIN lang_priority : GeneratedAt(i))) =>
    /\ transcript # 0
    /\ transcript_list[transcript].language_code = lang_priority[EarliestGenerated]
    /\ transcript_list[transcript].is_generated
    /\ result.is_generated = TRUE
    /\ result.language =
         IF raisedAt = "fetch" THEN None ELSE lang_priority[EarliestGenerated]
    /\ (raisedAt = "none" => result.success)

\* Priority [ko, en] against a video with only an English generated track.
C2_Witness ==
  /\ pc = "done"
  /\ lang_priority = <<"ko", "en">>
  /\ tracks = << [language_code |-> "en", language |-> "English", is_generated |-> TRUE] >>
  /\ result.success
  /\ result.language = "en"
  /\ result.is_generated = TRUE

\* The video has tracks, none of them in a priority language.
NoPriorityTrack ==
  tracks # <<>> /\ \A i \in DOMAIN lang_priority : ~AnyAt(i)

C4_ZeroTracks ==
  (pc \in ExtractPcs /\ tracks = <<>>) =>
    /\ \A i \in DOMAIN calls : calls[i] # "fetch"
    /\ pc \notin {"fetch", "assemble"}
    /\ (pc = "done" =>
          /\ ~result.success
          /\ result.error # None
          /\ result.error # ""
          /\ result.segments = <<>>
          /\ result.full_text = "")

\* The listing succeeded and was empty: the early return.
C4_Witness ==
  /\ pc = "done"
  /\ tracks = <<>>
  /\ raised = NoExc
  /\ calls = <<"list">>
  /\ ~result.success
  /\ result.error = MsgNoTranscript

\* The message the claim pairs with each recognized failure of the list query.
MessageOf(t) ==
  IF t = "TranscriptsDisabled" THEN MsgDisabled
  ELSE IF t = "VideoUnavailable" THEN MsgUnavailable
  ELSE MsgNoTranscript

\* C5: a list query failing with one of the three recognized errors ends the
\* call with no track selected, no fetch, success=false and the message of
\* that case, which is the message of neither other case.
C5_ListFailures ==
  (pc = "done" /\ raisedAt = "list" /\ raised.type \in RecognizedTypes) =>
    /\ ~result.success
    /\ transcript = 0
    /\ calls = <<"list">>
    /\ result.segments = <<>>
    /\ result.error = MessageOf(raised.type)
    /\ \A t \in RecognizedTypes \ {raised.type} : result.error # MessageOf(t)

\* The nonexistent-video scenario.
C5_Witness ==
  /\ pc = "done"
  /\ raisedAt = "list"
  /\ raised.type = "VideoUnavailable"
  /\ ~result.success
  /\ result.error = MsgUnavailable

\* e is handled by no except clause but the catch-all.
Unexpected(e) == e # NoExc /\ e.type \notin RecognizedTypes

\* e is no provider error class at all.
Unclassified(e) == e.type = "Exception"

C7_TerminalShapes ==
  pc = "done" =>
    \/ /\ result.success
       /\ result.error = None
       /\ result.segments = RoundSegments(segments)
    \/ /\ ~result.success
       /\ result.error # None
       /\ result.error # ""
       /\ result.segments = <<>>

\* The texts of segs[1..n] joined by newlines, built from the left.
RECURSIVE NewlineJoined(_, _)
NewlineJoined(segs, n) ==
  IF n = 0 THEN ""
  ELSE IF n = 1 THEN segs[1].text
  ELSE NewlineJoined(segs, n - 1) \o "\n" \o segs[n].text

\* C8: a successful result has one segment per fetched segment, in order,
\* and full_text is the newline-join of the segments' texts.
C8_FullText ==
  (pc = "done" /\ result.success) =>
    /\ Len(result.segments) = Len(segments)
    /\ \A i \in DOMAIN segments :
         /\ result.segments[i].text = segments[i].text
         /\ result.segments[i].start = Round2(segments[i].start)
         /\ result.segments[i].duration = Round2(segments[i].duration)
    /\ result.full_text = NewlineJoined(result.segments, Len(result.segments))

\* Two segments, the second with an empty text.
C8_Witness ==
  /\ pc = "done"
  /\ result.success
  /\ Len(result.segments) = 2
  /\ result.segments[2].text = ""
  /\ result.full_text = "hi\n"

\* C9: list_available_languages returns one entry per track in enumeration
\* order on success, and on a failure of the list query or of the
\* enumeration success=false, str(e) as error and no languages.
C9_Languages ==
  /\ pc \in {"l_list", "l_enum", "l_done"} => fault = NoExc
  /\ pc = "l_done" =>
       IF raised = NoExc
       THEN /\ lang_result.success
            /\ Len(lang_result.languages) = Len(tracks)
            /\ \A i \in DOMAIN tracks :
                 /\ lang_result.languages[i].code = tracks[i].language_code
                 /\ lang_result.languages[i].name = tracks[i].language
                 /\ lang_result.languages[i].is_generated = tracks[i].is_generated
       ELSE /\ ~lang_result.success
            /\ lang_result.languages = <<>>
            /\ lang_result.error = raised.desc

\* The enumeration raised after a track had been appended.
C9_Witness ==
  /\ pc = "l_done"
  /\ raisedAt = "enumerate"
  /\ Len(languages) >= 1
  /\ ~lang_result.success
  /\ lang_result.languages = <<>>

\* C10: the provider calls of a call are one list query, then at most one
\* fetch, the fetch only after a successful listing and a selection; a
\* failed call is the last one and the result is success=false.
C10_ProviderCalls ==
  pc \in ExtractPcs =>
    /\ calls \in {<<>>, <<"list">>, <<"list", "fetch">>}
    /\ (pc # "list" => Len(calls) >= 1)
    /\ (Len(calls) = 2 => transcript # 0 /\ raisedAt # "list")
    /\ (pc = "done" /\ raisedAt = "list" => calls = <<"list">> /\ ~result.success)
    /\ (pc = "done" /\ raisedAt = "fetch" =>
          calls = <<"list", "fetch">> /\ ~result.success)

\* The listing succeeded and the fetch failed.
C10_Witness ==
  /\ pc = "done"
  /\ calls = <<"list", "fetch">>
  /\ raisedAt = "fetch"
  /\ ~result.success

====
